---- MODULE Spec2Model ----
(***************************************************************************)
(* Model of obj2png.py: the batch renderer that turns every OBJ file under *)
(* an input directory into ten PNG views.                                  *)
(*                                                                         *)
(* Two specifications share the module.                                    *)
(*   Spec      the batch: main, batch_render, the process pool and the     *)
(*             jobs (process_single_model) writing the output tree.        *)
(*   SpecGeom  one ThreeViewRenderer session, step by step, over a wide    *)
(*             range of imported meshes: the normalisation arithmetic and  *)
(*             the camera's ortho scale.                                   *)
(* Numbers Blender keeps as floats are exact rationals here.               *)
(***************************************************************************)
EXTENDS Integers, Sequences, FiniteSets, TLC

(***************************************************************************)
(* Bounds of the model.                                                    *)
(***************************************************************************)
MaxFiles == 2
MaxProcesses == 2
MaxExtent == 2

(***************************************************************************)
(* Exact rational arithmetic: [n |-> numerator, d |-> denominator > 0],    *)
(* always in lowest terms.                                                 *)
(***************************************************************************)
Abs(i) == IF i < 0 THEN -i ELSE i

RECURSIVE GCD(_, _)
GCD(a, b) == IF b = 0 THEN a ELSE GCD(b, a % b)

Rat(n, d) ==
  LET s == IF d < 0 THEN -1 ELSE 1
      g == GCD(Abs(n), Abs(d))
  IN  [n |-> (s * n) \div g, d |-> (s * d) \div g]

R(i) == [n |-> i, d |-> 1]

RAdd(a, b) == Rat(a.n * b.d + b.n * a.d, a.d * b.d)
RNeg(a) == [n |-> -a.n, d |-> a.d]
RSub(a, b) == RAdd(a, RNeg(b))
RMul(a, b) == Rat(a.n * b.n, a.d * b.d)
RDiv(a, b) == Rat(a.n * b.d, a.d * b.n)
RLeq(a, b) == a.n * b.d <= b.n * a.d
RAbs(a) == [n |-> Abs(a.n), d |-> a.d]
RMax(S) == CHOOSE m \in S : \A x \in S : RLeq(x, m)
RMin(S) == CHOOSE m \in S : \A x \in S : RLeq(m, x)

Axes == 1..3
V(x, y, z) == <<R(x), R(y), R(z)>>
VAdd(u, v) == <<RAdd(u[1], v[1]), RAdd(u[2], v[2]), RAdd(u[3], v[3])>>
VSub(u, v) == <<RSub(u[1], v[1]), RSub(u[2], v[2]), RSub(u[3], v[3])>>
VNeg(u) == <<RNeg(u[1]), RNeg(u[2]), RNeg(u[3])>>
VMul(u, v) == <<RMul(u[1], v[1]), RMul(u[2], v[2]), RMul(u[3], v[3])>>
VHalf(u) == <<RDiv(u[1], R(2)), RDiv(u[2], R(2)), RDiv(u[3], R(2))>>
VMax(u) == RMax({u[i] : i \in Axes})
Zero3 == V(0, 0, 0)
One3 == V(1, 1, 1)

(***************************************************************************)
(* A Blender object: its transform and the bounding box of its mesh data   *)
(* in local space (obj.bound_box).  rotation_euler is a number of quarter  *)
(* turns about X, the rotation the OBJ importer's axis conversion gives an *)
(* imported object.                                                        *)
(***************************************************************************)
RotX(q, p) == IF q % 2 = 0 THEN p ELSE <<p[1], RNeg(p[3]), p[2]>>

\* obj.matrix_world @ p
matrix_world(obj, p) == VAdd(obj.location, RotX(obj.rotation_euler, VMul(obj.scale, p)))

\* the eight corners of obj.bound_box
bound_box(obj) ==
  { <<x, y, z>> : x \in {obj.bb_min[1], obj.bb_max[1]},
                  y \in {obj.bb_min[2], obj.bb_max[2]},
                  z \in {obj.bb_min[3], obj.bb_max[3]} }

\* Vector(map(min, zip(*corners))) and Vector(map(max, zip(*corners)))
CornersMin(C) == <<RMin({c[1] : c \in C}), RMin({c[2] : c \in C}), RMin({c[3] : c \in C})>>
CornersMax(C) == <<RMax({c[1] : c \in C}), RMax({c[2] : c \in C}), RMax({c[3] : c \in C})>>

\* obj.dimensions: the local bounding box's size times the object's scale
dimensions(obj) ==
  LET dim(i) == RAbs(RMul(obj.scale[i], RSub(obj.bb_max[i], obj.bb_min[i])))
  IN  <<dim(1), dim(2), dim(3)>>

\* bpy.ops.object.transform_apply: bake the chosen parts of the transform
\* into the mesh data and reset them on the object
transform_apply(obj, loc, rot, scl) ==
  LET baked == [location |-> IF loc THEN obj.location ELSE Zero3,
                rotation_euler |-> IF rot THEN obj.rotation_euler ELSE 0,
                scale |-> IF scl THEN obj.scale ELSE One3]
      C == { matrix_world(baked, c) : c \in bound_box(obj) }
  IN  [location |-> IF loc THEN Zero3 ELSE obj.location,
       rotation_euler |-> IF rot THEN 0 ELSE obj.rotation_euler,
       scale |-> IF scl THEN One3 ELSE obj.scale,
       bb_min |-> CornersMin(C),
       bb_max |-> CornersMax(C)]

\* bpy.ops.object.origin_set(type='ORIGIN_GEOMETRY', center='BOUNDS'): the
\* origin moves to the centre of the bounding box, the mesh stays in place
origin_set(obj) ==
  LET c == VHalf(VAdd(obj.bb_min, obj.bb_max))
      placed == matrix_world(obj, c)
  IN  [obj EXCEPT !.location = placed,
                  !.bb_min = VSub(obj.bb_min, c),
                  !.bb_max = VSub(obj.bb_max, c)]

\* a scaling guard that lets every mesh through
ScaleGuardAlways(max_dim) == TRUE

\* the guard of the scaling step: max_dim != 0
ScaleGuard(max_dim) == max_dim # R(0)

\* a scale factor that normalises the largest dimension to 1 unit
scale_factor_unit(max_dim) == RDiv(R(1), max_dim)

\* scale_factor = 2.0 / max_dim
scale_factor(max_dim) == RDiv(R(2), max_dim)

\* ThreeViewRenderer._reset_model_transform.  The result carries the error
\* the method raised ("" when it returned); 2.0 / max_dim raises
\* ZeroDivisionError on a zero max_dim.
reset_model_transform(obj) ==
  LET o1 == transform_apply(obj, TRUE, TRUE, TRUE)
      o2 == origin_set(o1)
      o3 == [o2 EXCEPT !.location = Zero3]
      o4 == [o3 EXCEPT !.rotation_euler = 0]
      max_dim == VMax(dimensions(o4))
  IN  IF ScaleGuard(max_dim)
        THEN IF max_dim = R(0)
               THEN [obj |-> o4, raised |-> "ZeroDivisionError"]
               ELSE LET f == scale_factor(max_dim)
                        o5 == [o4 EXCEPT !.scale = <<f, f, f>>]
                    IN  [obj |-> transform_apply(o5, FALSE, FALSE, TRUE),
                         raised |-> ""]
        ELSE [obj |-> transform_apply(o4, FALSE, FALSE, TRUE), raised |-> ""]

\* the bounding box of the object in world space, as _auto_adjust_camera
\* computes it from obj.matrix_world and obj.bound_box
bbox_corners(obj) == { matrix_world(obj, c) : c \in bound_box(obj) }
bbox_min(obj) == CornersMin(bbox_corners(obj))
bbox_max(obj) == CornersMax(bbox_corners(obj))

\* the margin of the ortho scale, 1.2
Margin == Rat(12, 10)

\* an ortho scale whose margin is added instead of multiplied
ortho_scale_added(max_dim) == RAdd(max_dim, Margin)

\* self.camera.data.ortho_scale = max_dim * 1.2
ortho_scale(max_dim) == RMul(max_dim, Margin)

\* ThreeViewRenderer._auto_adjust_camera: the ortho scale it sets and the
\* object it leaves
auto_adjust_camera(obj) ==
  LET dims == VSub(bbox_max(obj), bbox_min(obj))
      max_dim == VMax(dims)
      center == VHalf(VAdd(bbox_max(obj), bbox_min(obj)))
  IN  [ortho_scale |-> ortho_scale(max_dim),
       obj |-> [obj EXCEPT !.location = VNeg(center)]]

(***************************************************************************)
(* The camera pose table of render_all_views, in iteration order: the six  *)
(* orthographic views, then the four isometric ones.  Angles are in        *)
(* thousandths of a degree.                                                *)
(***************************************************************************)
iso_distance == 15
iso_angle == 54736

orthographic_views ==
  << [name |-> "front",  position |-> <<0, -15, 0>>, rotation |-> <<90000, 0, 180000>>],
     [name |-> "back",   position |-> <<0, 15, 0>>,  rotation |-> <<90000, 0, 0>>],
     [name |-> "right",  position |-> <<15, 0, 0>>,  rotation |-> <<90000, 0, 90000>>],
     [name |-> "left",   position |-> <<-15, 0, 0>>, rotation |-> <<90000, 0, -90000>>],
     [name |-> "top",    position |-> <<0, 0, 15>>,  rotation |-> <<0, 0, 180000>>],
     [name |-> "bottom", position |-> <<0, 0, -15>>, rotation |-> <<180000, 0, 180000>>] >>

iso_views ==
  << [name |-> "standard",  position |-> <<iso_distance, -iso_distance, iso_distance>>,
      rotation |-> <<iso_angle, 0, 45000>>],
     [name |-> "iso_back",  position |-> <<-iso_distance, iso_distance, iso_distance>>,
      rotation |-> <<iso_angle, 0, 225000>>],
     [name |-> "iso_left",  position |-> <<-iso_distance, -iso_distance, iso_distance>>,
      rotation |-> <<iso_angle, 0, 315000>>],
     [name |-> "iso_right", position |-> <<iso_distance, iso_distance, iso_distance>>,
      rotation |-> <<iso_angle, 0, 135000>>] >>

\* a render_all_views without its second loop
all_views_orthographic_only == orthographic_views

\* a render_all_views whose loops run in the other order
all_views_iso_first == iso_views \o orthographic_views

\* the views in the order render_all_views renders them
all_views == orthographic_views \o iso_views
NumViews == Len(all_views)
ViewNames == { all_views[i].name : i \in 1..NumViews }

\* f"{view_name}.png"
png(view_name) == <<view_name, "png">>

\* bpy.data.objects.new("Camera", bpy.data.cameras.new("Camera")) with
\* self.camera.data.type = 'ORTHO'; a new camera's ortho scale is Blender's
\* default
DefaultOrthoScale == R(6)
new_camera ==
  [type |-> "ORTHO", ortho_scale |-> DefaultOrthoScale,
   location |-> <<0, 0, 0>>, rotation_euler |-> <<0, 0, 0>>]

\* ThreeViewRenderer._set_camera_position
set_camera_position(camera, position, rotation) ==
  [camera EXCEPT !.location = position, !.rotation_euler = rotation]

(***************************************************************************)
(* State.                                                                  *)
(*   g_*   one renderer session of SpecGeom: the position in __init__ /    *)
(*         render_all_views, the imported object, the camera (a sequence   *)
(*         of length 0 or 1), the index of the next view, the renders done *)
(*         so far and the error raised; g_import keeps the object as it    *)
(*         was imported.                                                   *)
(***************************************************************************)
VARIABLES g_pc, g_import, g_obj, g_camera, g_view, g_log, g_raised

gvars == <<g_pc, g_import, g_obj, g_camera, g_view, g_log, g_raised>>

(***************************************************************************)
(*   The batch of Spec.                                                    *)
(*   tree           the OBJ files under input_dir (the input)              *)
(*   fault          the step at which the job of each file raises, "none"  *)
(*                  for a file that renders (the input)                    *)
(*   num_processes  the size of the pool (the input)                       *)
(*   rerun          whether main has run to its end before this run        *)
(*   pc             where main / batch_render stands                       *)
(*   obj_files      the result of glob                                     *)
(*   taskq          the tasks of pool.map no worker has taken yet          *)
(*   worker         per pool process: its position in process_single_model,*)
(*                  its task and the index of its next view                *)
(*   scene          per pool process: the objects of its bpy scene         *)
(*   results        per task: the value its job returned (length 0 or 1)   *)
(*   printed        the lines batch_render printed                         *)
(*   dirs, files    the output tree: subdirectories and their files        *)
(*   writes         which task of this run wrote which file                *)
(*   attempted      per task of this run: the views whose render was       *)
(*                  requested, in order                                    *)
(*   prev_tree      the output tree when this run of main started          *)
(***************************************************************************)
VARIABLES tree, fault, num_processes, rerun, pc, obj_files, taskq, worker, scene,
          results, printed, dirs, files, writes, attempted, prev_tree

bvars == <<tree, fault, num_processes, rerun, pc, obj_files, taskq, worker, scene,
           results, printed, dirs, files, writes, attempted, prev_tree>>

vars == <<bvars, gvars>>

(***************************************************************************)
(* SpecGeom: the objects an OBJ import can leave selected.                 *)
(***************************************************************************)
Locations == {V(0, 0, 0), V(1, -2, 3)}
Scales == {V(1, 1, 1), V(1, 2, 3), V(-2, 2, 2)}
Mins == {V(0, 0, 0), V(-1, -3, 1)}
Extents == {V(x, y, z) : x \in 0..MaxExtent, y \in 0..MaxExtent, z \in 0..MaxExtent}

ImportedObjects ==
  { [location |-> l, rotation_euler |-> q, scale |-> s,
     bb_min |-> lo, bb_max |-> VAdd(lo, e)] :
      l \in Locations, q \in 0..1, s \in Scales, lo \in Mins, e \in Extents }

\* a renderer session at obj = bpy.context.selected_objects[0] in
\* _setup_scene, for any imported object; the batch plays no part
GInit ==
  /\ g_pc = "reset"
  /\ g_obj \in ImportedObjects
  /\ g_import = g_obj
  /\ g_camera = <<>>
  /\ g_view = 1
  /\ g_log = <<>>
  /\ g_raised = ""
  /\ tree = {}
  /\ fault = <<>>
  /\ num_processes = 1
  /\ rerun = FALSE
  /\ pc = "off"
  /\ obj_files = <<>>
  /\ taskq = <<>>
  /\ worker = <<>>
  /\ scene = <<>>
  /\ results = <<>>
  /\ printed = <<>>
  /\ dirs = {}
  /\ files = {}
  /\ writes = {}
  /\ attempted = <<>>
  /\ prev_tree = [dirs |-> {}, files |-> {}]

\* self._reset_model_transform(obj); an error ends the session
GResetModelTransform ==
  /\ g_pc = "reset"
  /\ LET r == reset_model_transform(g_obj)
     IN  /\ g_obj' = r.obj
         /\ g_raised' = r.raised
         /\ g_pc' = IF r.raised = "" THEN "material" ELSE "failed"
  /\ UNCHANGED <<bvars, g_import, g_camera, g_view, g_log>>

\* resolution, world background, self._setup_model_material(obj) and
\* self._add_sun_light(...): none of them touches the object or a camera
GSetupModelMaterial ==
  /\ g_pc = "material"
  /\ g_pc' = "camera"
  /\ UNCHANGED <<bvars, g_import, g_obj, g_camera, g_view, g_log, g_raised>>

\* self.camera = bpy.data.objects.new(...)
GCreateCamera ==
  /\ g_pc = "camera"
  /\ g_camera' = <<new_camera>>
  /\ g_pc' = "adjust"
  /\ UNCHANGED <<bvars, g_import, g_obj, g_view, g_log, g_raised>>

\* self._auto_adjust_camera(obj)
GAutoAdjustCamera ==
  /\ g_pc = "adjust"
  /\ LET a == auto_adjust_camera(g_obj)
     IN  /\ g_camera' = <<[g_camera[1] EXCEPT !.ortho_scale = a.ortho_scale]>>
         /\ g_obj' = a.obj
  /\ g_pc' = "render"
  /\ UNCHANGED <<bvars, g_import, g_view, g_log, g_raised>>

\* one iteration of the loops of render_all_views: render_view(...)
GRenderView ==
  /\ g_pc = "render"
  /\ LET v == all_views[g_view]
         cam == set_camera_position(g_camera[1], v.position, v.rotation)
     IN  /\ g_camera' = <<cam>>
         /\ g_log' = Append(g_log, [view |-> v.name, ortho_scale |-> cam.ortho_scale])
  /\ g_view' = g_view + 1
  /\ g_pc' = IF g_view = NumViews THEN "done" ELSE "render"
  /\ UNCHANGED <<bvars, g_import, g_obj, g_raised>>

GNext ==
  \/ GResetModelTransform
  \/ GSetupModelMaterial
  \/ GCreateCamera
  \/ GAutoAdjustCamera
  \/ GRenderView

(***************************************************************************)
(* Spec: the batch.                                                        *)
(***************************************************************************)
\* the OBJ files the input directory can hold, in directory order: directory
\* and base name of <input_dir>/a/x.obj, <input_dir>/a/y.obj and
\* <input_dir>/b/x.obj
DirectoryOrder ==
  << [dir |-> "a", base |-> "x"], [dir |-> "a", base |-> "y"],
     [dir |-> "b", base |-> "x"] >>
Paths == { DirectoryOrder[i] : i \in 1..Len(DirectoryOrder) }

\* the steps of a job that can raise
SetupFaults == {"makedirs", "import", "normalize", "material"}

\* the steps at which the job of a file can be made to raise: any step when
\* the pool has one process; with more processes, any step of the set-up,
\* the first orthographic view or the first isometric view
FaultViews(processes) ==
  IF processes = 1 THEN ViewNames
  ELSE {orthographic_views[1].name, iso_views[1].name}
Faults(processes) == {"none"} \cup SetupFaults \cup FaultViews(processes)

\* the error a step raises
Error(step) ==
  IF step = "makedirs" THEN <<"OSError", step>> ELSE <<"RuntimeError", step>>

\* glob.glob(os.path.join(input_dir, "**/*.obj"), recursive=True): the files
\* of the tree, in directory order
InTree(T, f) == f \in T
glob(T) == SelectSeq(DirectoryOrder, LAMBDA f : InTree(T, f))

\* a subdirectory of its own for every run of main
model_output_dir_per_run(obj_path) == <<obj_path.base, rerun>>

\* os.path.join(output_dir, os.path.splitext(os.path.basename(obj_path))[0]),
\* relative to output_dir
model_output_dir(obj_path) == <<obj_path.base>>

\* an except clause that lets the error out of the job
process_single_model_reraise(obj_path, e) ==
  [status |-> "raised", obj_path |-> obj_path, detail |-> e]

\* except Exception as e: return f"渲染失败 {obj_path}: {str(e)}"
process_single_model_except(obj_path, e) ==
  [status |-> "failure", obj_path |-> obj_path, detail |-> e]

\* a try block that starts after os.makedirs
in_try_after_makedirs(step) == step # "makedirs"

\* the steps of process_single_model inside its try block: all of them
in_try(step) == TRUE

\* what a job that raised e at a step hands back to the pool
job_raised(obj_path, step) ==
  IF in_try(step)
    THEN process_single_model_except(obj_path, Error(step))
    ELSE process_single_model_reraise(obj_path, Error(step))

\* return f"成功渲染: {obj_path}"
job_returned(obj_path) ==
  [status |-> "success", obj_path |-> obj_path, detail |-> <<>>]

\* the scene a fresh Blender process starts with
DefaultScene ==
  { [kind |-> "MESH", job |-> 0], [kind |-> "LIGHT", job |-> 0],
    [kind |-> "CAMERA", job |-> 0] }

\* a scene set-up that keeps what the scene held
keep_scene(objects) == objects

\* bpy.ops.object.select_all(action='SELECT'); bpy.ops.object.delete()
clear_scene(objects) == {}

\* ThreeViewRenderer._setup_scene for task job on a scene holding objects,
\* raising at step f when f is one of its steps: the objects of the scene it
\* leaves and the error raised.  What it does to the imported object and to
\* the camera is the subject of SpecGeom.
setup_scene(objects, job, f) ==
  LET cleared == clear_scene(objects)
      with_mesh == cleared \cup {[kind |-> "MESH", job |-> job]}
      with_light == with_mesh \cup {[kind |-> "LIGHT", job |-> job]}
      with_camera == with_light \cup {[kind |-> "CAMERA", job |-> job]}
  IN  IF f = "import"
        THEN [objects |-> cleared, raised |-> <<f>>]
      ELSE IF f \in {"normalize", "material"}
        THEN [objects |-> with_mesh, raised |-> <<f>>]
      ELSE [objects |-> with_camera, raised |-> <<>>]

Procs == 1..MaxProcesses
Idle == [pc |-> "idle", task |-> 0, view |-> 0]

\* the inputs of a batch and an empty output directory; the session of
\* SpecGeom plays no part
Init ==
  /\ tree \in {T \in SUBSET Paths : Cardinality(T) <= MaxFiles}
  /\ num_processes \in 1..MaxProcesses
  /\ fault \in [tree -> Faults(num_processes)]
  /\ \A f, g \in tree :
       f.base = g.base => (fault[f] = "makedirs" <=> fault[g] = "makedirs")
  /\ rerun = FALSE
  /\ pc = "main"
  /\ obj_files = <<>>
  /\ taskq = <<>>
  /\ worker = [w \in Procs |-> Idle]
  /\ scene = [w \in Procs |-> {}]
  /\ results = <<>>
  /\ printed = <<>>
  /\ dirs = {}
  /\ files = {}
  /\ writes = {}
  /\ attempted = <<>>
  /\ prev_tree = [dirs |-> {}, files |-> {}]
  /\ g_pc = "off"
  /\ g_import = <<>>
  /\ g_obj = <<>>
  /\ g_camera = <<>>
  /\ g_view = 1
  /\ g_log = <<>>
  /\ g_raised = ""

\* main up to the dispatch of pool.map in batch_render: os.makedirs of the
\* output directory, glob, the early return on no file, the pool with its
\* fresh processes and the tasks
main ==
  /\ pc \in {"main", "done"}
  /\ rerun' = (pc = "done")
  /\ prev_tree' = [dirs |-> dirs, files |-> files]
  /\ LET found == glob(tree)
     IN  /\ obj_files' = found
         /\ pc' = IF found = <<>> THEN "done" ELSE "map"
         /\ taskq' = [i \in 1..Len(found) |-> i]
         /\ results' = [i \in 1..Len(found) |-> <<>>]
         /\ attempted' = [i \in 1..Len(found) |-> <<>>]
  /\ worker' = [w \in Procs |-> Idle]
  /\ scene' = [w \in Procs |-> IF w <= num_processes THEN DefaultScene ELSE {}]
  /\ printed' = <<>>
  /\ writes' = {}
  /\ UNCHANGED <<gvars, tree, fault, num_processes, dirs, files>>

\* a free process of the pool takes the next task
take_task(w) ==
  /\ pc = "map"
  /\ w <= num_processes
  /\ worker[w].pc = "idle"
  /\ taskq # <<>>
  /\ worker' = [worker EXCEPT ![w] = [pc |-> "makedirs", task |-> Head(taskq), view |-> 0]]
  /\ taskq' = Tail(taskq)
  /\ UNCHANGED <<gvars, tree, fault, num_processes, rerun, pc, obj_files, scene, 
                 results, printed, dirs, files, writes, attempted, prev_tree>>

\* the job of process w ends with result r
Finish(w, r) ==
  /\ results' = [results EXCEPT ![worker[w].task] = <<r>>]
  /\ worker' = [worker EXCEPT ![w] = Idle]

\* os.makedirs(model_output_dir, exist_ok=True)
makedirs(w) ==
  /\ worker[w].pc = "makedirs"
  /\ LET obj_path == obj_files[worker[w].task]
     IN  IF fault[obj_path] = "makedirs"
           THEN /\ Finish(w, job_raised(obj_path, "makedirs"))
                /\ UNCHANGED dirs
           ELSE /\ dirs' = dirs \cup {model_output_dir(obj_path)}
                /\ worker' = [worker EXCEPT ![w].pc = "setup"]
                /\ UNCHANGED results
  /\ UNCHANGED <<gvars, tree, fault, num_processes, rerun, pc, obj_files, taskq, scene,
                  printed, files, writes, attempted, prev_tree>>

\* renderer = ThreeViewRenderer(...): __init__ and its _setup_scene
new_renderer(w) ==
  /\ worker[w].pc = "setup"
  /\ LET job == worker[w].task
         obj_path == obj_files[job]
         s == setup_scene(scene[w], job, fault[obj_path])
     IN  /\ scene' = [scene EXCEPT ![w] = s.objects]
         /\ IF s.raised # <<>>
              THEN Finish(w, job_raised(obj_path, s.raised[1]))
              ELSE /\ worker' = [worker EXCEPT ![w].pc = "render", ![w].view = 1]
                   /\ UNCHANGED results
  /\ UNCHANGED <<gvars, tree, fault, num_processes, rerun, pc, obj_files, taskq, printed,
                 dirs, files, writes, attempted, prev_tree>>

\* one iteration of the loops of render_all_views: render_view(view_name,
\* position, rotation); after the last one the job returns its success line
render_view(w) ==
  /\ worker[w].pc = "render"
  /\ LET job == worker[w].task
         obj_path == obj_files[job]
         v == all_views[worker[w].view]
         output_path == <<model_output_dir(obj_path), png(v.name)>>
     IN  /\ attempted' = [attempted EXCEPT ![job] = Append(@, v.name)]
         /\ IF fault[obj_path] = v.name
              THEN /\ Finish(w, job_raised(obj_path, v.name))
                   /\ UNCHANGED <<files, writes>>
              ELSE /\ files' = files \cup {output_path}
                   /\ writes' = writes \cup {[job |-> job, path |-> output_path]}
                   /\ IF worker[w].view = NumViews
                        THEN Finish(w, job_returned(obj_path))
                        ELSE /\ worker' = [worker EXCEPT ![w].view = @ + 1]
                             /\ UNCHANGED results
  /\ UNCHANGED <<gvars, tree, fault, num_processes, rerun, pc, obj_files, taskq, scene,
                 printed, dirs, prev_tree>>

\* pool.map returns once every task has its result, or raises the error a job
\* let out; batch_render then prints the results
batch_render_results ==
  /\ pc = "map"
  /\ \A i \in 1..Len(results) : results[i] # <<>>
  /\ IF \E i \in 1..Len(results) : results[i][1].status = "raised"
       THEN /\ pc' = "raised"
            /\ UNCHANGED printed
       ELSE /\ pc' = "done"
            /\ printed' = [i \in 1..Len(results) |-> results[i][1]]
  /\ UNCHANGED <<gvars, tree, fault, num_processes, rerun, obj_files, taskq, worker, scene,
                  results, dirs, files, writes, attempted, prev_tree>>

Next ==
  \/ main
  \/ \E w \in Procs : take_task(w)
  \/ \E w \in Procs : makedirs(w)
  \/ \E w \in Procs : new_renderer(w)
  \/ \E w \in Procs : render_view(w)
  \/ batch_render_results

Spec == Init /\ [][Next]_vars

SpecGeom == GInit /\ [][GNext]_vars

(***************************************************************************)
(* Properties of the normaliser and the camera (SpecGeom).                 *)
(***************************************************************************)
\* the three dimensions and the centre of an object's world bounding box
WorldDims(obj) == VSub(bbox_max(obj), bbox_min(obj))
WorldCenter(obj) == VHalf(VAdd(bbox_max(obj), bbox_min(obj)))
Degenerate(obj) == VMax(WorldDims(obj)) = R(0)
Normalised == g_pc \in {"render", "done"}

\* C5: a mesh whose bounding box has a non-zero largest dimension has, after
\* _reset_model_transform and the re-centring of _auto_adjust_camera, a
\* largest bounding-box dimension of exactly 2 and its bounding-box centre at
\* the origin, whatever its initial location, rotation, scale and box.
C5_NormalisedToTwoAtOrigin ==
  (Normalised /\ ~Degenerate(g_import)) =>
     /\ VMax(WorldDims(g_obj)) = R(2)
     /\ WorldCenter(g_obj) = Zero3

C5_Witness ==
  /\ g_pc = "done"
  /\ ~Degenerate(g_import)
  /\ g_import.location = V(1, -2, 3)
  /\ g_import.scale = V(1, 2, 3)
  /\ g_import.rotation_euler = 1
  /\ WorldCenter(g_import) # Zero3
  /\ VMax(WorldDims(g_import)) = R(6)

\* C6: a mesh whose largest bounding-box dimension is zero raises no
\* division by zero in the normaliser, is not scaled (its scale is the
\* identity and its box keeps its zero size), and the session goes on to the
\* render steps.
C6_DegenerateMeshNotScaled ==
  Degenerate(g_import) =>
     /\ g_raised = ""
     /\ g_pc # "failed"
     /\ g_pc # "reset" => /\ g_obj.scale = One3
                         /\ Degenerate(g_obj)

C6_Witness ==
  /\ Degenerate(g_import)
  /\ g_import.scale = V(-2, 2, 2)
  /\ g_pc = "done"
  /\ Len(g_log) = NumViews

\* an object with the same transform and a bounding box twice as large
Doubled(obj) ==
  [obj EXCEPT !.bb_min = VMul(V(2, 2, 2), obj.bb_min),
              !.bb_max = VMul(V(2, 2, 2), obj.bb_max)]

\* C8: the ortho scale is the largest extent of the normalised bounding box
\* times 1.2, it has that value at every one of the renders of the model, and
\* it is linear in the extent: an object of twice the extent given to
\* _auto_adjust_camera gets twice the ortho scale.
C8_OrthoScale ==
  /\ \A i \in 1..Len(g_log) :
        g_log[i].ortho_scale = RMul(VMax(WorldDims(g_obj)), Rat(12, 10))
  /\ Normalised => g_camera[1].ortho_scale = RMul(VMax(WorldDims(g_obj)), Rat(12, 10))
  /\ g_pc = "adjust" =>
        \A o \in {g_import, g_obj} :
          auto_adjust_camera(Doubled(o)).ortho_scale =
            RMul(R(2), auto_adjust_camera(o).ortho_scale)

C8_Witness ==
  /\ g_pc = "done"
  /\ Len(g_log) = NumViews
  /\ \A i \in 1..NumViews :
        g_log[i].view = all_views[i].name /\ g_log[i].ortho_scale = Rat(24, 10)
  /\ VMax(WorldDims(g_import)) = R(3)

(***************************************************************************)
(* Properties of the batch (Spec).                                         *)
(***************************************************************************)
Tasks == 1..Len(obj_files)
Raising == {i \in Tasks : fault[obj_files[i]] # "none"}
Running == {w \in Procs : worker[w].pc # "idle"}
HasResult(i) == results[i] # <<>>
Result(i) == results[i][1]
FilesIn(d) == {f \in files : f[1] = d}
Returned == pc = "done" /\ obj_files # <<>>

\* the ten views, in the order the camera pose table lists them
ViewOrder ==
  << "front", "back", "right", "left", "top", "bottom",
     "standard", "iso_back", "iso_left", "iso_right" >>
Position(view_name) == CHOOSE k \in 1..Len(ViewOrder) : ViewOrder[k] = view_name
ViewFaults == {ViewOrder[k] : k \in 1..Len(ViewOrder)}

\* C1: a batch of N >= 1 discovered files of which K raise in their job does
\* not abort; when batch_render returns it has printed exactly N results, one
\* per discovered file, K of them failures and N - K successes.
C1_OneResultPerFile ==
  /\ pc # "raised"
  /\ Returned =>
       /\ Len(printed) = Len(obj_files)
       /\ \A i \in Tasks : printed[i].obj_path = obj_files[i]
       /\ Cardinality({i \in Tasks : printed[i].status = "failure"})
            = Cardinality(Raising)
       /\ Cardinality({i \in Tasks : printed[i].status = "success"})
            = Len(obj_files) - Cardinality(Raising)

C1_Witness ==
  /\ Returned
  /\ num_processes = 2
  /\ Len(obj_files) = 2
  /\ Cardinality(Raising) = 1
  /\ printed[1].status = "failure"
  /\ printed[2].status = "success"

\* C2: an error at any step of a job (makedirs, import, normalisation,
\* material, the render of any view) becomes that job's failure result with
\* the path of the model and the text of the error; it never leaves the job,
\* so the batch is not aborted and every other job ends with its own result.
C2_ErrorsBecomeFailureResults ==
  /\ pc # "raised"
  /\ \A i \in Tasks :
       HasResult(i) =>
         /\ Result(i).status # "raised"
         /\ Result(i).obj_path = obj_files[i]
         /\ i \in Raising =>
              /\ Result(i).status = "failure"
              /\ Result(i).detail = Error(fault[obj_files[i]])
         /\ i \notin Raising => Result(i).status = "success"
  /\ Returned => \A i \in Tasks : HasResult(i)

C2_Witness ==
  /\ Returned
  /\ Len(obj_files) = 2
  /\ fault[obj_files[1]] = "makedirs"
  /\ Result(1) = [status |-> "failure", obj_path |-> obj_files[1],
                  detail |-> <<"OSError", "makedirs">>]
  /\ fault[obj_files[2]] = "top"
  /\ Result(2) = [status |-> "failure", obj_path |-> obj_files[2],
                  detail |-> <<"RuntimeError", "top">>]

\* C3: concurrent workers never write into the same output subdirectory: two
\* jobs that are rendering their views at the same time have distinct output
\* subdirectories, and no output PNG path is written by two jobs.
C3_DistinctOutputDirs ==
  /\ \A w1, w2 \in Running :
       (w1 # w2 /\ worker[w1].pc = "render" /\ worker[w2].pc = "render") =>
          <<obj_files[worker[w1].task].base>> # <<obj_files[worker[w2].task].base>>
  /\ \A a, b \in writes : a.path = b.path => a.job = b.job

\* C4: the output subdirectory of a model whose job returned success holds
\* exactly the ten files front.png ... iso_right.png, and no job writes a
\* file of any other name.
C4_SuccessHasTenViews ==
  /\ \A i \in Tasks :
       (HasResult(i) /\ Result(i).status = "success") =>
          FilesIn(<<obj_files[i].base>>) =
            { <<<<obj_files[i].base>>, <<ViewOrder[k], "png">>>> : k \in 1..Len(ViewOrder) }
  /\ \A f \in files : \E k \in 1..Len(ViewOrder) : f[2] = <<ViewOrder[k], "png">>

C4_Witness ==
  /\ Returned
  /\ ~rerun
  /\ \E i, j \in Tasks :
       /\ Result(i).status = "success"
       /\ Cardinality(FilesIn(<<obj_files[i].base>>)) = 10
       /\ Result(j).detail = <<"RuntimeError", "standard">>
       /\ Cardinality(FilesIn(<<obj_files[j].base>>)) = 6

\* C7: a run of the batch on an output directory that an earlier run on the
\* same input has filled leaves the output tree as it found it: the same
\* subdirectories and the same files in each.
C7_RerunKeepsOutputTree ==
  (pc = "done" /\ rerun) => [dirs |-> dirs, files |-> files] = prev_tree

C7_Witness ==
  /\ pc = "done"
  /\ rerun
  /\ num_processes = 2
  /\ Cardinality(dirs) = 2
  /\ \E i, j \in Tasks : /\ Result(i).status = "success"
                        /\ Result(j).detail = <<"RuntimeError", "standard">>
  /\ Cardinality(files) = 16

\* C9: the views of a job are rendered one after another in the order front,
\* back, right, left, top, bottom, standard, iso_back, iso_left, iso_right,
\* each at most once: at any time the renders requested so far are a prefix
\* of that order, a running job has requested exactly the views before its
\* next one, a job that succeeded has requested all ten, and a job in which
\* the render of a view raised has requested no view after that one.
C9_ViewsInOrder ==
  /\ \A i \in 1..Len(attempted) :
       /\ Len(attempted[i]) <= Len(ViewOrder)
       /\ attempted[i] = SubSeq(ViewOrder, 1, Len(attempted[i]))
       /\ HasResult(i) =>
            /\ Result(i).status = "success" => attempted[i] = ViewOrder
            /\ (Result(i).status = "failure" /\ Result(i).detail[2] \in ViewFaults) =>
                 attempted[i] = SubSeq(ViewOrder, 1, Position(Result(i).detail[2]))
            /\ (Result(i).status = "failure" /\ Result(i).detail[2] \notin ViewFaults) =>
                 attempted[i] = <<>>
  /\ \A w \in Running :
       worker[w].pc = "render" => Len(attempted[worker[w].task]) = worker[w].view - 1
  /\ \A a \in writes :
       \E k \in 1..Len(attempted[a.job]) : a.path[2] = <<attempted[a.job][k], "png">>

C9_Witness ==
  /\ Returned
  /\ \E i, j \in Tasks :
       /\ Result(i).detail = <<"RuntimeError", "left">>
       /\ attempted[i] = <<"front", "back", "right", "left">>
       /\ Result(j).status = "success"
       /\ attempted[j] = ViewOrder

\* C10: when a job renders its views, the scene of its process holds the
\* mesh, the light and the camera of that job and no object of any other
\* job, neither of a job another process runs nor of an earlier job of the
\* same process, even one that failed part-way, nor of the default scene.
C10_SceneHoldsOnlyOwnObjects ==
  \A w \in Running :
    worker[w].pc = "render" =>
      scene[w] = { [kind |-> k, job |-> worker[w].task] : k \in {"MESH", "LIGHT", "CAMERA"} }

C10_Witness ==
  /\ num_processes = 1
  /\ Len(obj_files) = 2
  /\ HasResult(1)
  /\ Result(1).detail = <<"RuntimeError", "material">>
  /\ worker[1] = [pc |-> "render", task |-> 2, view |-> 3]

====
